---- MODULE Spec2Model ----
(***************************************************************************)
(* Real-Time-Attendance-System: the Student Management page (enrollment),  *)
(* and the Capture Attendance page (recognition loop, today's report,      *)
(* status toggle), over the shared sqlite tables `students` and            *)
(* `attendance`, the encodings/ directory and the dataset/ directory.      *)
(*                                                                         *)
(* Python strings are sequences of one-character strings, so that strip,   *)
(* lower, title, replace, split and rsplit are computed as Python computes *)
(* them.  Dates are day numbers, embeddings are opaque numbers, distances  *)
(* are hundredths (0.4 is 40).                                             *)
(***************************************************************************)
EXTENDS Integers, Sequences, FiniteSets, TLC

(* ------------------------------ bounds --------------------------------- *)
MaxDay == 2
MaxEnc == 2
MaxN == 2
MaxAttempts == 2
MaxRecords == 2
MaxDirs == 2
MaxEnrolled == 2
MaxEdits == 2
MaxSaves == 1
MaxLog == 3
MaxDuration == 2

(* ------------------------- Python str methods -------------------------- *)
LowerChars == <<"a", "b", "c", "d", "x">>
UpperChars == <<"A", "B", "C", "D", "X">>
\* code-point order of the characters used
Alphabet == <<" ", "1", "2", "A", "B", "C", "D", "X", "_", "a", "b", "c", "d", "x">>

IndexIn(c, s) == IF \E i \in DOMAIN s : s[i] = c
                 THEN CHOOSE i \in DOMAIN s : s[i] = c
                 ELSE 0

IsAlpha(c) == IndexIn(c, LowerChars) > 0 \/ IndexIn(c, UpperChars) > 0

LowerChar(c) == IF IndexIn(c, UpperChars) > 0 THEN LowerChars[IndexIn(c, UpperChars)] ELSE c

UpperChar(c) == IF IndexIn(c, LowerChars) > 0 THEN UpperChars[IndexIn(c, LowerChars)] ELSE c

lower(s) == [i \in DOMAIN s |-> LowerChar(s[i])]

\* str.title(): a cased character is upper-cased after an uncased one, lower-cased after a cased one
title(s) == [i \in DOMAIN s |->
               IF i > 1 /\ IsAlpha(s[i - 1]) THEN LowerChar(s[i]) ELSE UpperChar(s[i])]

replace(s, old, new) == [i \in DOMAIN s |-> IF s[i] = old THEN new ELSE s[i]]

strip(s) ==
    IF \A i \in DOMAIN s : s[i] = " " THEN << >>
    ELSE LET first == CHOOSE i \in DOMAIN s : s[i] # " " /\ \A j \in 1..(i - 1) : s[j] = " "
             last == CHOOSE i \in DOMAIN s : s[i] # " " /\ \A j \in (i + 1)..Len(s) : s[j] = " "
         IN SubSeq(s, first, last)

\* len(s.split()): the number of maximal runs of non-blank characters
SplitCount(s) == Cardinality({i \in DOMAIN s : s[i] # " " /\ (i = 1 \/ s[i - 1] = " ")})

\* s.rsplit(sep, 1) of a string holding sep: the parts before and after its last occurrence
LastIndex(s, sep) == CHOOSE i \in DOMAIN s : s[i] = sep /\ \A j \in (i + 1)..Len(s) : s[j] # sep
rsplitHead(s, sep) == SubSeq(s, 1, LastIndex(s, sep) - 1)
rsplitTail(s, sep) == SubSeq(s, LastIndex(s, sep) + 1, Len(s))

CharOrd(c) == IndexIn(c, Alphabet)

\* Python's < on str
StrLess(s, t) ==
    \/ Len(s) < Len(t) /\ \A i \in DOMAIN s : s[i] = t[i]
    \/ \E i \in DOMAIN s \cap DOMAIN t :
          /\ \A j \in 1..(i - 1) : s[j] = t[j]
          /\ CharOrd(s[i]) < CharOrd(t[i])

RECURSIVE sorted(_)
sorted(S) == IF S = {} THEN << >>
             ELSE LET m == CHOOSE x \in S : \A y \in S \ {x} : StrLess(x, y)
                  IN <<m>> \o sorted(S \ {m})

Range(s) == {s[i] : i \in DOMAIN s}

(* ------------------------------ inputs --------------------------------- *)
NameInputs == { <<"a", " ", "b", " ", "c">>,
                <<" ", "A", " ", "b", " ", "c">>,
                <<"d", " ", "b", " ", "c">>,
                <<"a", " ", "b">> }
RegInputs == { <<"1">>, <<"X">>, <<"x">> }

UNKNOWN == <<"U", "N", "K", "N", "O", "W", "N">>

VARIABLES
    today,                 \* date.today()
    students,              \* table students, in rowid order
    encodings_dir,         \* encodings/<folder>.npy : folder name -> list of embeddings
    dataset_dir,           \* dataset/<folder>/ : folder name -> set of image numbers
    next_enc,              \* the next embedding the encoder produces
    student_name,          \* text input "Full Name"
    registration_number,   \* text input "Registration Number", stripped
    allow_capture_flag,    \* st.session_state.allow_capture
    rendered,              \* the button the last run of the page rendered
    enroll_msg,            \* the last message of the page
    cap_pc,                \* position of the capture handler
    num_images_to_capture,
    total_attempts, accepted, rejected_blur, rejected_encoding, rejected_no_face,
    encodings,             \* the capture handler's list `encodings`
    confirmed,             \* registration numbers "Continue Anyway" was pressed for
    before,                \* stores and directories as the capture handler found them
    attendance,            \* table attendance, in id order
    next_id,               \* AUTOINCREMENT
    recognized_names,      \* st.session_state.recognized_names
    camera_running, camera_stopped,
    rec_pc,                \* position of the "Start Camera" handler
    rec_msg,               \* the last message of the camera column
    use_timer,
    end_time,              \* start_time + duration_minutes, in ticks since start_time; 0 for None
    elapsed,               \* the last datetime.now() of the loop, in ticks since start_time
    known_encodings, known_names, reg_map,
    last_face,             \* the face the loop handled last: its distances and its label
    marked_calls,          \* calls of mark_attendance in this session
    email_calls,           \* calls of send_attendance_email in this session
    seen,                  \* identifiers matched in threshold so far today
    report,                \* the counts the report shows
    reported_day,          \* the date of the last report, 0 before the first
    force_reload,          \* st.session_state.force_reload
    df,                    \* load_data() as st.cache_data holds it
    original_data,         \* st.session_state.original_data
    time_filter, selected_date, selected_name,
    editable_df,           \* what st.data_editor returns
    data_changed, confirm_save,
    save_msg,              \* the message "Save Changes" left
    stmts,                 \* the statements the last save executed
    n_edits, n_saves       \* edits and saves so far

enrollVars == <<students, encodings_dir, dataset_dir, next_enc, student_name,
                registration_number, allow_capture_flag, rendered, enroll_msg, cap_pc,
                num_images_to_capture, total_attempts, accepted, rejected_blur,
                rejected_encoding, rejected_no_face, encodings, before, confirmed>>



attendVars == <<attendance, next_id, recognized_names, camera_running, camera_stopped, rec_pc,
                rec_msg, use_timer, end_time, elapsed, known_encodings, known_names, reg_map, last_face,
                marked_calls, email_calls, seen, report, reported_day, force_reload>>

recordVars == <<df, original_data, time_filter, selected_date, selected_name, editable_df,
                data_changed, confirm_save, save_msg, stmts, n_edits, n_saves>>

(* ------------------------ Student Management page ---------------------- *)
normalize_folder_name(name, reg_no) ==
    replace(lower(strip(name)), " ", "_") \o <<"_">> \o lower(strip(reg_no))

name_valid(name) == name # << >> /\ SplitCount(strip(name)) = 3

\* rows of students bound to reg_no (at most one: reg_no is UNIQUE)
RowsOf(tbl, reg_no) == SelectSeq(tbl, LAMBDA r : r.reg_no = reg_no)

reg_exists(tbl, name, reg_no) ==
    reg_no # << >> /\ name_valid(name) /\ RowsOf(tbl, reg_no) # << >>

matched_existing_name(tbl, name, reg_no) ==
    /\ reg_exists(tbl, name, reg_no)
    /\ lower(strip(RowsOf(tbl, reg_no)[1].full_name)) = lower(strip(name))

\* the name comparison left out of the capture condition
allow_capture_no_match(tbl, name, reg_no, flag) ==
    /\ name # << >> /\ reg_no # << >> /\ name_valid(name)
    /\ \/ ~reg_exists(tbl, name, reg_no)
       \/ reg_exists(tbl, name, reg_no) /\ flag

allow_capture(tbl, name, reg_no, flag) ==
    /\ name # << >> /\ reg_no # << >> /\ name_valid(name)
    /\ \/ ~reg_exists(tbl, name, reg_no)
       \/ reg_exists(tbl, name, reg_no) /\ matched_existing_name(tbl, name, reg_no) /\ flag

\* what one run of the page shows below the form, and the button it renders
PageMsg(tbl, name, reg_no, flag) ==
    IF allow_capture(tbl, name, reg_no, flag) THEN "none"
    ELSE IF name_valid(name) /\ reg_no # << >>
         THEN IF reg_exists(tbl, name, reg_no) /\ ~matched_existing_name(tbl, name, reg_no)
              THEN "conflict"
              ELSE IF reg_exists(tbl, name, reg_no) /\ matched_existing_name(tbl, name, reg_no) /\ ~flag
                   THEN "already_registered"
                   ELSE "none"
         ELSE IF name # << >> /\ ~name_valid(name) THEN "name_warning" ELSE "none"

PageButton(tbl, name, reg_no, flag) ==
    IF allow_capture(tbl, name, reg_no, flag) THEN "capture"
    ELSE IF PageMsg(tbl, name, reg_no, flag) = "already_registered" THEN "continue"
         ELSE "none"

NoSnapshot == [taken |-> FALSE]

InitEnroll ==
    /\ students = << >>
    /\ encodings_dir = << >>
    /\ dataset_dir = << >>
    /\ next_enc = 1
    /\ student_name = << >>
    /\ registration_number = << >>
    /\ allow_capture_flag = FALSE
    /\ rendered = "none"
    /\ enroll_msg = "none"
    /\ cap_pc = "idle"
    /\ num_images_to_capture = 1
    /\ total_attempts = 0
    /\ accepted = 0
    /\ rejected_blur = 0
    /\ rejected_encoding = 0
    /\ rejected_no_face = 0
    /\ encodings = << >>
    /\ before = NoSnapshot
    /\ confirmed = {}

Put(f, k, v) == [x \in DOMAIN f \cup {k} |-> IF x = k THEN v ELSE f[x]]

Rerender ==
    /\ rendered' = PageButton(students', student_name', registration_number', allow_capture_flag')
    /\ enroll_msg' = PageMsg(students', student_name', registration_number', allow_capture_flag')

captureLocals == <<cap_pc, num_images_to_capture, total_attempts, accepted, rejected_blur,
                   rejected_encoding, rejected_no_face, encodings, before>>

\* the operator edits the two text inputs; the page re-runs
SetForm(name, reg_raw) ==
    /\ cap_pc = "idle"
    /\ student_name' = name
    /\ registration_number' = strip(reg_raw)
    /\ UNCHANGED <<students, encodings_dir, dataset_dir, next_enc, allow_capture_flag, confirmed,
                   captureLocals>>
    /\ Rerender
    /\ UNCHANGED <<today, attendVars, recordVars>>

\* "Continue Anyway to Add More Images"
ClickContinue ==
    /\ cap_pc = "idle"
    /\ rendered = "continue"
    /\ IF PageButton(students, student_name, registration_number, allow_capture_flag) = "continue"
       THEN /\ allow_capture_flag' = TRUE
            /\ confirmed' = confirmed \cup {registration_number}
            /\ UNCHANGED <<rendered, enroll_msg>>
       ELSE /\ rendered' = PageButton(students, student_name, registration_number, allow_capture_flag)
            /\ enroll_msg' = PageMsg(students, student_name, registration_number, allow_capture_flag)
            /\ UNCHANGED <<allow_capture_flag, confirmed>>
    /\ UNCHANGED <<students, encodings_dir, dataset_dir, next_enc, student_name,
                   registration_number, captureLocals>>
    /\ UNCHANGED <<today, attendVars, recordVars>>

folder_name == normalize_folder_name(student_name, registration_number)

\* "Capture Images and Register": up to the test of cam.isOpened()
ClickCapture(n, opened) ==
    /\ cap_pc = "idle"
    /\ rendered = "capture"
    /\ IF allow_capture(students, student_name, registration_number, allow_capture_flag)
       THEN /\ folder_name \in DOMAIN dataset_dir \/ Cardinality(DOMAIN dataset_dir) < MaxDirs
            /\ dataset_dir' = IF folder_name \in DOMAIN dataset_dir
                              THEN dataset_dir
                              ELSE Put(dataset_dir, folder_name, {})
            /\ before' = [taken |-> TRUE, students |-> students,
                          encodings_dir |-> encodings_dir, dataset_dir |-> dataset_dir]
            /\ num_images_to_capture' = n
            /\ total_attempts' = 0
            /\ accepted' = 0
            /\ rejected_blur' = 0
            /\ rejected_encoding' = 0
            /\ rejected_no_face' = 0
            /\ encodings' = << >>
            /\ cap_pc' = IF opened THEN "loop" ELSE "post"
            /\ enroll_msg' = "none"
            /\ UNCHANGED rendered
       ELSE /\ rendered' = PageButton(students, student_name, registration_number, allow_capture_flag)
            /\ enroll_msg' = PageMsg(students, student_name, registration_number, allow_capture_flag)
            /\ UNCHANGED <<dataset_dir, captureLocals>>
    /\ UNCHANGED <<students, encodings_dir, next_enc, student_name, registration_number,
                   allow_capture_flag, confirmed>>
    /\ UNCHANGED <<today, attendVars, recordVars>>

FrameOutcomes == {"no_face", "blur", "no_encoding", "accepted"}

\* the attempt counted before the test of ret
attempts_after_read_early(total, ret) == total + 1

\* `if not ret: ... break` comes before `total_attempts += 1`
attempts_after_read(total, ret) == IF ret THEN total + 1 ELSE total

\* one iteration of `while accepted < num_images_to_capture`
CaptureFrame(ret, outcome, esc) ==
    /\ cap_pc = "loop"
    /\ total_attempts' = attempts_after_read(total_attempts, ret)
    /\ IF ~ret
       THEN /\ cap_pc' = "post"
            /\ UNCHANGED <<accepted, rejected_blur, rejected_encoding,
                           rejected_no_face, encodings, dataset_dir, next_enc>>
       ELSE /\ total_attempts < MaxAttempts
            /\ outcome = "accepted" => next_enc <= MaxEnc
            /\ rejected_no_face' = rejected_no_face + (IF outcome = "no_face" THEN 1 ELSE 0)
            /\ rejected_blur' = rejected_blur + (IF outcome = "blur" THEN 1 ELSE 0)
            /\ rejected_encoding' = rejected_encoding + (IF outcome = "no_encoding" THEN 1 ELSE 0)
            /\ IF outcome = "accepted"
               THEN /\ encodings' = Append(encodings, next_enc)
                    /\ next_enc' = next_enc + 1
                    /\ dataset_dir' = Put(dataset_dir, folder_name,
                                          dataset_dir[folder_name] \cup {accepted + 1})
                    /\ accepted' = accepted + 1
               ELSE UNCHANGED <<encodings, next_enc, dataset_dir, accepted>>
            /\ cap_pc' = IF esc \/ ~(accepted' < num_images_to_capture) THEN "post" ELSE "loop"
    /\ UNCHANGED <<students, encodings_dir, student_name, registration_number,
                   allow_capture_flag, confirmed, rendered, enroll_msg, num_images_to_capture,
                   before>>
    /\ UNCHANGED <<today, attendVars, recordVars>>

\* INSERT OR REPLACE INTO students: the row bound to reg_no goes, the new row gets a new rowid
InsertOrReplace(tbl, row) == Append(SelectSeq(tbl, LAMBDA r : r.reg_no # row.reg_no), row)

\* the file overwritten with the new encodings only
SaveEncodings_overwrite(dir, folder, encs) == Put(dir, folder, encs)

\* np.save(encoding_path, old_encodings + encodings)
SaveEncodings(dir, folder, encs) ==
    Put(dir, folder, (IF folder \in DOMAIN dir THEN dir[folder] ELSE << >>) \o encs)

previous_count(tbl, reg_no) ==
    IF RowsOf(tbl, reg_no) # << >> THEN RowsOf(tbl, reg_no)[1].image_count ELSE 0

registration_date(tbl, reg_no, day) == day

\* after the loop: `if encodings:` ... `else:`
CapturePersist ==
    /\ cap_pc = "post"
    /\ IF encodings # << >>
       THEN /\ encodings_dir' = SaveEncodings(encodings_dir, folder_name, encodings)
            /\ students' = InsertOrReplace(students,
                  [full_name |-> lower(strip(student_name)),
                   reg_no |-> registration_number,
                   folder_name |-> folder_name,
                   image_count |-> previous_count(students, registration_number) + accepted,
                   registration_date |-> registration_date(students, registration_number, today)])
            /\ enroll_msg' = "saved"
       ELSE /\ enroll_msg' = "no_encodings"
            /\ UNCHANGED <<students, encodings_dir>>
    /\ cap_pc' = "idle"
    /\ before' = NoSnapshot
    \* the handler's locals end with it
    /\ num_images_to_capture' = 1
    /\ total_attempts' = 0
    /\ accepted' = 0
    /\ rejected_blur' = 0
    /\ rejected_encoding' = 0
    /\ rejected_no_face' = 0
    /\ encodings' = << >>
    /\ UNCHANGED <<dataset_dir, next_enc, student_name, registration_number, allow_capture_flag,
                   confirmed, rendered>>
    /\ UNCHANGED <<today, attendVars, recordVars>>

(* ------------------------ Capture Attendance page ---------------------- *)
Present == "Present"
Absent == "Absent"
SentinelTime == "-"
\* datetime.now().strftime("%H:%M:%S"): never the sentinel
NowTime == "HH:MM:SS"

Distances == {35, 40}
Threshold == 40

NoFace == [detected |-> FALSE]
NoReport == [shown |-> FALSE]

\* os.listdir(ENCODING_DIR): the files in any order
Listings(dir) ==
    LET n == Cardinality(DOMAIN dir)
    IN {o \in [1..n -> DOMAIN dir] : \A i, j \in 1..n : o[i] = o[j] => i = j}

RECURSIVE load_names(_, _)
load_names(dir, order) ==
    IF order = << >> THEN << >>
    ELSE [i \in DOMAIN dir[Head(order)] |-> Head(order)] \o load_names(dir, Tail(order))

RECURSIVE load_encodings(_, _)
load_encodings(dir, order) ==
    IF order = << >> THEN << >>
    ELSE dir[Head(order)] \o load_encodings(dir, Tail(order))

\* reg_map[full_name] = reg_no, in the order of known_names: the last file of a name wins
RECURSIVE load_reg_map(_, _)
load_reg_map(names, map) ==
    IF names = << >> THEN map
    ELSE LET name_with_reg == Head(names)
             name_part == rsplitHead(name_with_reg, "_")
             reg_no == rsplitTail(name_with_reg, "_")
             full_name == lower(strip(replace(name_part, "_", " ")))
         IN load_reg_map(Tail(names), Put(map, full_name, reg_no))

\* np.argmin: the first index of the least distance
best_match_index(distances) ==
    CHOOSE i \in DOMAIN distances :
        /\ \A j \in DOMAIN distances : distances[i] <= distances[j]
        /\ \A j \in 1..(i - 1) : distances[j] > distances[i]

\* the comparison as <=
InThreshold_inclusive(d) == d <= Threshold

InThreshold(d) == d < Threshold

\* name_with_reg.replace("_", " ").rsplit(" ", 1)[0].title()
display_name(name_with_reg) == title(rsplitHead(replace(name_with_reg, "_", " "), " "))

\* the session list never consulted
not_recognized_always(name, names) == TRUE

not_recognized(name, names) == name \notin Range(names)

\* the existence check of mark_attendance left out
mark_fetchone_never(att, full_name, day) == FALSE

\* SELECT * FROM attendance WHERE full_name = ? AND date = ?  (mark_attendance)
mark_fetchone(att, full_name, day) ==
    \E i \in DOMAIN att : att[i].full_name = full_name /\ att[i].date = day

\* the existence check of the report left out
report_fetchone_never(att, full_name, day) == FALSE

\* SELECT * FROM attendance WHERE full_name = ? AND date = ?  (today's report)
report_fetchone(att, full_name, day) ==
    \E i \in DOMAIN att : att[i].full_name = full_name /\ att[i].date = day

Row(id, full_name, reg_no, day, time, status) ==
    [id |-> id, full_name |-> full_name, reg_no |-> reg_no, date |-> day, time |-> time,
     status |-> status]

lookup_reg(map, full_name) == IF full_name \in DOMAIN map THEN map[full_name] ELSE UNKNOWN


InitAttendPage ==
    /\ attendance = << >>
    /\ next_id = 1
    /\ recognized_names = << >>
    /\ camera_running = FALSE
    /\ camera_stopped = FALSE
    /\ rec_pc = "off"
    /\ rec_msg = "none"
    /\ use_timer = FALSE
    /\ end_time = 0
    /\ elapsed = 0
    /\ known_encodings = << >>
    /\ known_names = << >>
    /\ reg_map = << >>
    /\ last_face = NoFace
    /\ marked_calls = << >>
    /\ email_calls = << >>
    /\ seen = {}
    /\ report = NoReport
    /\ reported_day = 0
    /\ force_reload = FALSE

sessionLog == <<marked_calls, email_calls, seen>>

vars == <<today, enrollVars, attendVars, recordVars>>

\* "Start Camera", up to the first cam.read()
StartCamera(order, timer, duration_minutes) ==
    /\ rec_pc = "off"
    /\ report' = NoReport
    /\ IF load_encodings(encodings_dir, order) = << >>
       THEN /\ rec_msg' = "no_encodings"
            /\ UNCHANGED <<recognized_names, camera_running, camera_stopped, rec_pc, use_timer,
                           end_time, elapsed, known_encodings, known_names, reg_map,
                           marked_calls, email_calls>>
       ELSE /\ known_encodings' = load_encodings(encodings_dir, order)
            /\ known_names' = load_names(encodings_dir, order)
            /\ reg_map' = load_reg_map(load_names(encodings_dir, order), << >>)
            /\ recognized_names' = << >>
            /\ camera_running' = TRUE
            /\ camera_stopped' = FALSE
            /\ use_timer' = timer
            /\ end_time' = IF timer THEN duration_minutes ELSE 0
            /\ elapsed' = 0
            /\ rec_pc' = "read"
            /\ rec_msg' = "none"
            /\ marked_calls' = << >>
            /\ email_calls' = << >>
    /\ UNCHANGED <<attendance, next_id, last_face, seen, reported_day, force_reload>>
    /\ UNCHANGED <<today, enrollVars, recordVars>>

\* cam.release() ... st.session_state.camera_stopped = True
StopCamera ==
    /\ camera_running' = FALSE
    /\ camera_stopped' = TRUE
    /\ rec_pc' = "off"
    /\ known_encodings' = << >>
    /\ known_names' = << >>
    /\ reg_map' = << >>
    /\ last_face' = NoFace
    /\ use_timer' = FALSE
    /\ end_time' = 0
    /\ elapsed' = 0
    /\ marked_calls' = << >>
    /\ email_calls' = << >>

\* ret, frame = cam.read()
ReadFrame(ret) ==
    /\ rec_pc = "read"
    /\ IF ret
       THEN /\ rec_pc' = "faces"
            /\ last_face' = NoFace
            /\ UNCHANGED <<camera_running, camera_stopped, rec_msg, use_timer, end_time,
                           elapsed, known_encodings, known_names, reg_map>>
            /\ UNCHANGED <<marked_calls, email_calls>>
       ELSE /\ rec_msg' = "camera_failed"
            /\ StopCamera
    /\ UNCHANGED <<attendance, next_id, recognized_names, seen, report, reported_day,
                   force_reload>>
    /\ UNCHANGED <<today, enrollVars, recordVars>>

\* the try/except around the SMTP conversation left out: a failed delivery raises
send_attendance_email_uncaught(configured, delivered) ==
    IF ~configured THEN "not_configured"
    ELSE IF delivered THEN "sent" ELSE "raised"

\* what send_attendance_email does: returns early without credentials, reports a delivery,
\* or catches the exception of a failed delivery and reports it
send_attendance_email(configured, delivered) ==
    IF ~configured THEN "not_configured"
    ELSE IF delivered THEN "sent" ELSE "failed"

\* the face the loop handled last
Face(distances, matched, name_with_reg, label, email) ==
    [detected |-> TRUE, distances |-> distances, matched |-> matched,
     name_with_reg |-> name_with_reg, label |-> label, email |-> email]

\* one iteration of `for face_encoding, ... in zip(face_encodings, face_locations)`
ProcessFace(distances) ==
    /\ rec_pc = "faces"
    /\ LET best == best_match_index(distances)
           d == distances[best]
           name_with_reg == known_names[best]
           name == display_name(name_with_reg)
           full_name == lower(name)
           reg_no == lookup_reg(reg_map, full_name)
       IN IF InThreshold(d)
          THEN /\ seen' = seen \cup {name_with_reg}
               /\ IF not_recognized(name, recognized_names)
                  THEN /\ recognized_names' = Append(recognized_names, name)
                       /\ marked_calls' = Append(marked_calls, full_name)
                       \* mark_attendance(full_name, reg_no)
                       /\ IF ~mark_fetchone(attendance, full_name, today)
                          THEN /\ Len(attendance) < MaxRecords
                               /\ attendance' = Append(attendance,
                                      Row(next_id, full_name, reg_no, today, NowTime, Present))
                               /\ next_id' = next_id + 1
                               /\ email_calls' = Append(email_calls, <<full_name, reg_no>>)
                               /\ \E configured \in BOOLEAN, delivered \in BOOLEAN :
                                     LET email == send_attendance_email(configured, delivered)
                                     IN /\ last_face' = Face(distances, TRUE, name_with_reg,
                                                             <<name, 100 - d>>, email)
                                        \* an exception that leaves send_attendance_email
                                        \* ends the run of the page
                                        /\ rec_pc' = IF email = "raised" THEN "off" ELSE "faces"
                          ELSE /\ last_face' = Face(distances, TRUE, name_with_reg,
                                                    <<name, 100 - d>>, "none")
                               /\ UNCHANGED <<attendance, next_id, email_calls, rec_pc>>
                  ELSE /\ last_face' = Face(distances, TRUE, name_with_reg,
                                            <<name, 100 - d>>, "none")
                       /\ UNCHANGED <<recognized_names, marked_calls, attendance, next_id,
                                      email_calls, rec_pc>>
          ELSE /\ last_face' = Face(distances, FALSE, << >>, <<"Unknown">>, "none")
               /\ UNCHANGED <<recognized_names, marked_calls, attendance, next_id, email_calls,
                              seen, rec_pc>>
    /\ UNCHANGED <<camera_running, camera_stopped, rec_msg, use_timer, end_time, elapsed,
                   known_encodings, known_names, reg_map, report, reported_day, force_reload>>
    /\ UNCHANGED <<today, enrollVars, recordVars>>

\* the timer test never true
timer_expired_never(timer, t, limit) == FALSE

\* use_timer and datetime.now() >= end_time
timer_expired(timer, t, limit) == timer /\ t >= limit

\* cv2.imshow, then the ESC test and, ESC not pressed, the timer test; dt is the time the
\* iteration took (the clock is read only when the timer is in use)
EndFrame(esc, dt) ==
    /\ rec_pc = "faces"
    /\ LET t == IF use_timer THEN elapsed + dt ELSE elapsed
       IN IF esc \/ timer_expired(use_timer, t, end_time)
          THEN /\ StopCamera
               /\ rec_msg' = "stopped"
          ELSE /\ rec_pc' = "read"
               /\ elapsed' = t
               /\ last_face' = NoFace
               /\ UNCHANGED <<camera_running, camera_stopped, rec_msg, use_timer, end_time,
                              known_encodings, known_names, reg_map, marked_calls, email_calls>>
    /\ UNCHANGED <<attendance, next_id, recognized_names, seen, report, reported_day,
                   force_reload>>
    /\ UNCHANGED <<today, enrollVars, recordVars>>

(* ---- "View Today's Attendance Report" ---- *)
get_registered_students(tbl) == [i \in DOMAIN tbl |-> tbl[i].full_name]

get_today_present(att, day) ==
    sorted({att[i].full_name : i \in {j \in DOMAIN att : att[j].date = day /\ att[j].status = Present}})

absent_students(tbl, att, day) ==
    sorted(Range(get_registered_students(tbl)) \ Range(get_today_present(att, day)))

\* SELECT reg_no FROM students WHERE full_name = ? : the first row of that name
student_reg(tbl, full_name) ==
    LET rows == SelectSeq(tbl, LAMBDA r : r.full_name = full_name)
    IN IF rows # << >> THEN rows[1].reg_no ELSE UNKNOWN

RECURSIVE synthesize(_, _, _, _, _)
synthesize(names, tbl, att, id, day) ==
    IF names = << >> THEN [attendance |-> att, next_id |-> id]
    ELSE IF ~report_fetchone(att, Head(names), day)
         THEN synthesize(Tail(names), tbl,
                         Append(att, Row(id, Head(names), student_reg(tbl, Head(names)), day,
                                         SentinelTime, Absent)),
                         id + 1, day)
         ELSE synthesize(Tail(names), tbl, att, id, day)

ViewReport ==
    /\ rec_pc = "off"
    /\ LET all_students == get_registered_students(students)
           present_today == get_today_present(attendance, today)
           absent == absent_students(students, attendance, today)
           result == synthesize(absent, students, attendance, next_id, today)
       IN /\ Len(result.attendance) <= MaxRecords
          /\ attendance' = result.attendance
          /\ next_id' = result.next_id
          /\ report' = [shown |-> TRUE, date |-> today, total |-> Len(all_students),
                        present |-> Len(present_today), absent |-> Len(absent)]
          /\ reported_day' = today
    /\ rec_msg' = "none"
    /\ UNCHANGED <<recognized_names, camera_running, camera_stopped, rec_pc, use_timer,
                   end_time, elapsed, known_encodings, known_names, reg_map, last_face,
                   sessionLog, force_reload>>
    /\ UNCHANGED <<today, enrollVars, recordVars>>

\* toggle_status(record_id, current_status) from a row of today's table
toggle_status(att, i) ==
    [att EXCEPT ![i].status = IF att[i].status = Present THEN Absent ELSE Present]

Toggle(i) ==
    /\ rec_pc = "off"
    /\ i \in DOMAIN attendance
    /\ attendance[i].date = today
    /\ attendance' = toggle_status(attendance, i)
    /\ force_reload' = TRUE
    /\ report' = NoReport
    /\ rec_msg' = "none"
    /\ UNCHANGED <<next_id, recognized_names, camera_running, camera_stopped, rec_pc,
                   use_timer, end_time, elapsed, known_encodings, known_names, reg_map,
                   last_face, sessionLog, reported_day>>
    /\ UNCHANGED <<today, enrollVars, recordVars>>

(* ----------------------- Attendance Records page ---------------------- *)
\* pd.isna(row["id"]): the id cell of a row added in the editor
NaN == 0
NoData == [loaded |-> FALSE]
Data(rows) == [loaded |-> TRUE, rows |-> rows]
AllNames == <<"A", "l", "l">>
AllDates == 0
NoStmts == [saved |-> FALSE]

\* SELECT id, date, full_name, reg_no, time, status FROM attendance
load_data(att) == att

ids(rows) == {rows[i].id : i \in DOMAIN rows}

\* the days of "Last N Days"; 0 for "All Time"
window(tf) == CASE tf = "Last 7 Days" -> 7
                [] tf = "Last 14 Days" -> 14
                [] tf = "Last 21 Days" -> 21
                [] tf = "Last 30 Days" -> 30
                [] OTHER -> 0

\* Date >= today - timedelta(days=N), today = datetime.today() later than midnight
in_window(tf, date, day) == window(tf) = 0 \/ date > day - window(tf)

filtered_df(rows, tf, sd, sn, day) ==
    SelectSeq(rows, LAMBDA r : /\ in_window(tf, r.date, day)
                               /\ sd = AllDates \/ r.date = sd
                               /\ sn = AllNames \/ r.full_name = sn)

\* the options of the two select boxes
date_options(rows) == {AllDates} \cup {rows[i].date : i \in DOMAIN rows}
name_options(rows) == {AllNames} \cup {rows[i].full_name : i \in DOMAIN rows}

\* the view of this run of the page
view == filtered_df(df.rows, time_filter, selected_date, selected_name, today)

RecordsClosed ==
    /\ df = NoData
    /\ original_data = NoData
    /\ time_filter = "All Time"
    /\ selected_date = AllDates
    /\ selected_name = AllNames
    /\ editable_df = << >>
    /\ data_changed = FALSE
    /\ confirm_save = FALSE
    /\ save_msg = "none"
    /\ stmts = NoStmts
    /\ n_edits = 0
    /\ n_saves = 0

\* one run of the page from the top: the cached frame, force_reload, the filters, the editor
\* (a select box whose choice left its options falls back to "All"; the editor starts afresh
\* when the frame it is given changes)
PageRun(rows, tf, sd, sn, edited, edits, changed) ==
    LET sd1 == IF sd \in date_options(rows) THEN sd ELSE AllDates
        sn1 == IF sn \in name_options(rows) THEN sn ELSE AllNames
        shown == filtered_df(rows, tf, sd1, sn1, today)
        ed == IF shown # view THEN shown ELSE edited
    IN /\ df' = Data(rows)
       /\ original_data' = IF force_reload THEN Data(rows) ELSE original_data
       /\ force_reload' = FALSE
       /\ time_filter' = tf
       /\ selected_date' = sd1
       /\ selected_name' = sn1
       /\ editable_df' = ed
       /\ n_edits' = edits
       /\ data_changed' = (changed \/ (shown # << >> /\ ed # shown))

otherStores == <<today, enrollVars, recognized_names, camera_running, camera_stopped, rec_pc,
                 rec_msg, use_timer, end_time, elapsed, known_encodings, known_names, reg_map, last_face,
                 marked_calls, email_calls, seen, report, reported_day>>

\* of the five options, the ones drawn
TimeFilters == {"All Time"}

\* the operator changes the select boxes
SetFilter(tf, sd, sn) ==
    /\ df.loaded
    /\ sd \in date_options(df.rows)
    /\ sn \in name_options(df.rows)
    /\ <<tf, sd, sn>> # <<time_filter, selected_date, selected_name>>
    /\ PageRun(df.rows, tf, sd, sn, editable_df, n_edits, data_changed)
    /\ save_msg' = "none"
    /\ UNCHANGED <<confirm_save, stmts, n_saves, attendance, next_id, otherStores>>

\* "Refresh Data": st.cache_data.clear(), st.rerun()
Refresh ==
    /\ df.loaded
    /\ PageRun(load_data(attendance), time_filter, selected_date, selected_name, editable_df,
               n_edits, data_changed)
    /\ save_msg' = "none"
    /\ UNCHANGED <<confirm_save, stmts, n_saves, attendance, next_id, otherStores>>

\* the check box "Confirm save changes"
ToggleConfirm ==
    /\ df.loaded
    /\ confirm_save' = ~confirm_save
    /\ PageRun(df.rows, time_filter, selected_date, selected_name, editable_df, n_edits,
               data_changed)
    /\ save_msg' = "none"
    /\ UNCHANGED <<stmts, n_saves, attendance, next_id, otherStores>>

\* an edit in the data editor (num_rows="dynamic": rows can be removed and added, every
\* column of the frame, id included, is a cell of the editor)
Edit(edited) ==
    /\ df.loaded
    /\ view # << >>
    /\ n_edits < MaxEdits
    /\ edited # editable_df
    /\ PageRun(df.rows, time_filter, selected_date, selected_name, edited, n_edits + 1,
               data_changed)
    /\ save_msg' = "none"
    /\ UNCHANGED <<confirm_save, stmts, n_saves, attendance, next_id, otherStores>>

remove_row(rows, k) == [i \in 1..(Len(rows) - 1) |-> IF i < k THEN rows[i] ELSE rows[i + 1]]

DeleteRow(k) == k \in DOMAIN editable_df /\ Edit(remove_row(editable_df, k))

EditId(k, id) ==
    k \in DOMAIN editable_df /\ Edit([editable_df EXCEPT ![k].id = id])

EditName(k, name) ==
    k \in DOMAIN editable_df /\ Edit([editable_df EXCEPT ![k].full_name = name])

EditStatus(k, status) ==
    k \in DOMAIN editable_df /\ Edit([editable_df EXCEPT ![k].status = status])

\* a row added at the foot of the editor: no id, the cells typed in (a student of the frame,
\* today's date)
AddRow(k, status) ==
    /\ df.loaded
    /\ k \in DOMAIN df.rows
    /\ Edit(Append(editable_df,
                   Row(NaN, df.rows[k].full_name, df.rows[k].reg_no, today, NowTime, status)))

(* ---- "Save Changes" ---- *)
\* original_all[original_all["id"].isin(filtered_df["id"])]
original_visible(original_all, shown) == SelectSeq(original_all, LAMBDA r : r.id \in ids(shown))

\* ids_before - ids_after, ids_after = set(current["id"].dropna())
deleted_ids(original_all, shown, current) ==
    ids(original_visible(original_all, shown)) \ (ids(current) \ {NaN})

\* DELETE FROM attendance WHERE id = ?, once for each deleted id
delete_rows(att, dels) == SelectSeq(att, LAMBDA r : r.id \notin dels)

\* UPDATE attendance SET full_name, reg_no, date, time, status WHERE id = int(row["id"])
update_row(att, row) == [i \in DOMAIN att |-> IF att[i].id = row.id THEN row ELSE att[i]]

\* `for _, row in current.iterrows()`: INSERT a row without id, UPDATE a row with one
RECURSIVE write_rows(_, _)
write_rows(rows, acc) ==
    IF rows = << >> THEN acc
    ELSE IF Head(rows).id = NaN
         THEN write_rows(Tail(rows),
                         [acc EXCEPT !.attendance =
                                        Append(@, [Head(rows) EXCEPT !.id = acc.next_id]),
                                     !.next_id = @ + 1,
                                     !.inserts = @ + 1])
         ELSE write_rows(Tail(rows),
                         [acc EXCEPT !.attendance = update_row(@, Head(rows)),
                                     !.updates = @ + 1])

save_changes(att, id, original_all, shown, current) ==
    LET dels == deleted_ids(original_all, shown, current)
    IN write_rows(current, [attendance |-> delete_rows(att, dels), next_id |-> id,
                            deletes |-> Cardinality(dels), updates |-> 0, inserts |-> 0])

ClickSave ==
    /\ df.loaded
    /\ LET original_all == IF force_reload THEN df.rows ELSE original_data.rows
           result == save_changes(attendance, next_id, original_all, view, editable_df)
       IN IF data_changed /\ confirm_save /\ view # << >>
          THEN /\ n_saves < MaxSaves
               /\ Len(result.attendance) <= MaxLog
               /\ attendance' = result.attendance
               /\ next_id' = result.next_id
               /\ stmts' = [saved |-> TRUE, deletes |-> result.deletes,
                            updates |-> result.updates, inserts |-> result.inserts]
               /\ n_saves' = n_saves + 1
               /\ save_msg' = "saved"
               /\ confirm_save' = FALSE
               \* st.rerun(): the cache keeps the frame loaded before the save
               /\ PageRun(df.rows, time_filter, selected_date, selected_name, editable_df,
                          n_edits, FALSE)
          ELSE /\ save_msg' = IF ~data_changed THEN "no_changes"
                              ELSE IF ~confirm_save THEN "confirm_first"
                              ELSE "error"
               /\ PageRun(df.rows, time_filter, selected_date, selected_name, editable_df,
                          n_edits, data_changed)
               /\ UNCHANGED <<attendance, next_id, stmts, n_saves, confirm_save>>
    /\ UNCHANGED otherStores

(* ------------------- stores the enrollment page leaves ------------------ *)
EmptyStore == [students |-> << >>, encodings_dir |-> << >>, dataset_dir |-> << >>, next_enc |-> 1]

\* one capture session that accepts one frame, as CaptureFrame and CapturePersist leave the stores
EnrollOnce(store, name, reg_no, day) ==
    LET folder == normalize_folder_name(name, reg_no)
    IN [students |-> InsertOrReplace(store.students,
                        [full_name |-> lower(strip(name)),
                         reg_no |-> reg_no,
                         folder_name |-> folder,
                         image_count |-> previous_count(store.students, reg_no) + 1,
                         registration_date |-> registration_date(store.students, reg_no, day)]),
        encodings_dir |-> SaveEncodings(store.encodings_dir, folder, <<store.next_enc>>),
        dataset_dir |-> Put(store.dataset_dir, folder, {1}),
        next_enc |-> store.next_enc + 1]

AttendRegInputs == { <<"1">>, <<"1", " ", "2">> }
ValidNameInputs == {name \in NameInputs : name_valid(name) /\ name = lower(strip(name))}

RECURSIVE StoresAfter(_)
StoresAfter(n) ==
    IF n = 0 THEN {EmptyStore}
    ELSE StoresAfter(n - 1) \cup
         {EnrollOnce(st, name, reg_no, 1) :
            <<st, name, reg_no>> \in
               {x \in StoresAfter(n - 1) \X ValidNameInputs \X AttendRegInputs :
                   \/ ~reg_exists(x[1].students, x[2], x[3])
                   \/ matched_existing_name(x[1].students, x[2], x[3])}}

Init == today = 1 /\ InitEnroll /\ InitAttendPage /\ RecordsClosed

InitAttend ==
    /\ today = 1
    /\ InitAttendPage
    /\ RecordsClosed
    /\ \E st \in StoresAfter(MaxEnrolled) :
          /\ students = st.students
          /\ encodings_dir = st.encodings_dir
          /\ dataset_dir = st.dataset_dir
          /\ next_enc = st.next_enc
    /\ student_name = << >>
    /\ registration_number = << >>
    /\ allow_capture_flag = FALSE
    /\ rendered = "none"
    /\ enroll_msg = "none"
    /\ cap_pc = "idle"
    /\ num_images_to_capture = 1
    /\ total_attempts = 0
    /\ accepted = 0
    /\ rejected_blur = 0
    /\ rejected_encoding = 0
    /\ rejected_no_face = 0
    /\ encodings = << >>
    /\ before = NoSnapshot
    /\ confirmed = {}

Tick == /\ today < MaxDay
        /\ today' = today + 1
        /\ seen' = {}
        /\ UNCHANGED <<enrollVars, attendance, next_id, recognized_names, camera_running,
                       camera_stopped, rec_pc, rec_msg, use_timer, end_time, elapsed,
                       known_encodings, known_names,
                       reg_map, last_face, marked_calls, email_calls, report, reported_day,
                       force_reload, recordVars>>

NextEnroll ==
    \/ \E name \in NameInputs, reg \in RegInputs : SetForm(name, reg)
    \/ ClickContinue
    \/ \E n \in 1..MaxN, opened \in BOOLEAN : ClickCapture(n, opened)
    \/ \E ret \in BOOLEAN, outcome \in FrameOutcomes, esc \in BOOLEAN : CaptureFrame(ret, outcome, esc)
    \/ CapturePersist
    \/ Tick

NextAttend ==
    \/ \E order \in Listings(encodings_dir), timer \in BOOLEAN : StartCamera(order, timer, 1)
    \/ \E ret \in BOOLEAN : ReadFrame(ret)
    \/ \E distances \in [DOMAIN known_encodings -> Distances] : ProcessFace(distances)
    \/ \E esc \in BOOLEAN : EndFrame(esc, 1)
    \/ ViewReport
    \/ \E i \in 1..MaxRecords : Toggle(i)
    \/ Tick

\* the Student Management page
SpecEnroll == Init /\ [][NextEnroll]_vars

\* the Capture Attendance page, over the stores enrollment leaves
SpecAttend == InitAttend /\ [][NextAttend]_vars

\* the recognition loop alone, with limits of 1..MaxDuration ticks and iterations of
\* 1..MaxDuration ticks
NextTimer ==
    \/ \E order \in Listings(encodings_dir), timer \in BOOLEAN, duration \in 1..MaxDuration :
          StartCamera(order, timer, duration)
    \/ \E ret \in BOOLEAN : ReadFrame(ret)
    \/ \E distances \in [DOMAIN known_encodings -> Distances] : ProcessFace(distances)
    \/ \E esc \in BOOLEAN, dt \in 1..MaxDuration : EndFrame(esc, dt)

\* the loop is sequential code: a frame read that returns is followed by the rest of the
\* iteration, and the iteration by the next read
SpecTimer ==
    /\ InitAttend
    /\ [][NextTimer]_vars
    /\ WF_vars(\E ret \in BOOLEAN : ReadFrame(ret))
    /\ WF_vars(\E esc \in BOOLEAN, dt \in 1..MaxDuration : EndFrame(esc, dt))

(* ---------------- logs the Capture Attendance page leaves ---------------- *)
\* mark_attendance(full_name, reg_no) of a day, as ProcessFace applies it
mark_attendance(log, full_name, reg_no, day) ==
    IF ~mark_fetchone(log.attendance, full_name, day)
    THEN [attendance |-> Append(log.attendance,
                                Row(log.next_id, full_name, reg_no, day, NowTime, Present)),
          next_id |-> log.next_id + 1]
    ELSE log

\* one session that recognizes the students of the identifiers `folders`, in that order
RECURSIVE recognize(_, _, _, _)
recognize(folders, map, log, day) ==
    IF folders = << >> THEN log
    ELSE LET full_name == lower(display_name(Head(folders)))
         IN recognize(Tail(folders), map,
                      mark_attendance(log, full_name, lookup_reg(map, full_name), day), day)

\* a day of the page: a session over some identifiers, then the report or not
DayLogs(st, log, day) ==
    UNION { LET session == recognize(order, load_reg_map(load_names(st.encodings_dir, order), << >>),
                                     log, day)
            IN {session,
                synthesize(absent_students(st.students, session.attendance, day), st.students,
                           session.attendance, session.next_id, day)}
            : order \in Listings(st.encodings_dir) }

RECURSIVE LogsAfter(_, _)
LogsAfter(st, day) ==
    IF day = 0 THEN {[attendance |-> << >>, next_id |-> 1]}
    ELSE UNION {DayLogs(st, log, day) : log \in LogsAfter(st, day - 1)}

\* the Attendance Records page after its first run, over a log of MaxDay days
InitRecords ==
    /\ today = MaxDay
    /\ \E st \in StoresAfter(MaxEnrolled) :
          /\ students = st.students
          /\ encodings_dir = st.encodings_dir
          /\ dataset_dir = st.dataset_dir
          /\ next_enc = st.next_enc
          /\ \E log \in LogsAfter(st, MaxDay) :
                /\ Len(log.attendance) \in 1..MaxLog
                /\ attendance = log.attendance
                /\ next_id = log.next_id
    /\ student_name = << >>
    /\ registration_number = << >>
    /\ allow_capture_flag = FALSE
    /\ rendered = "none"
    /\ enroll_msg = "none"
    /\ cap_pc = "idle"
    /\ num_images_to_capture = 1
    /\ total_attempts = 0
    /\ accepted = 0
    /\ rejected_blur = 0
    /\ rejected_encoding = 0
    /\ rejected_no_face = 0
    /\ encodings = << >>
    /\ before = NoSnapshot
    /\ confirmed = {}
    /\ recognized_names = << >>
    /\ camera_running = FALSE
    /\ camera_stopped = FALSE
    /\ rec_pc = "off"
    /\ rec_msg = "none"
    /\ use_timer = FALSE
    /\ end_time = 0
    /\ elapsed = 0
    /\ known_encodings = << >>
    /\ known_names = << >>
    /\ reg_map = << >>
    /\ last_face = NoFace
    /\ marked_calls = << >>
    /\ email_calls = << >>
    /\ seen = {}
    /\ report = NoReport
    /\ reported_day = 0
    /\ force_reload = FALSE
    /\ df = Data(load_data(attendance))
    /\ original_data = Data(load_data(attendance))
    /\ time_filter = "All Time"
    /\ selected_date = AllDates
    /\ selected_name = AllNames
    /\ editable_df = load_data(attendance)
    /\ data_changed = FALSE
    /\ confirm_save = FALSE
    /\ save_msg = "none"
    /\ stmts = NoStmts
    /\ n_edits = 0
    /\ n_saves = 0

Statuses == {Present, Absent}

NextRecords ==
    \/ \E tf \in TimeFilters, sd \in date_options(df.rows), sn \in name_options(df.rows) :
          SetFilter(tf, sd, sn)
    \/ Refresh
    \/ ToggleConfirm
    \/ \E k \in 1..MaxLog : DeleteRow(k)
    \/ \E k \in 1..MaxLog, id \in ids(df.rows) : EditId(k, id)
    \/ \E k \in 1..MaxLog, name \in name_options(df.rows) \ {AllNames} : EditName(k, name)
    \/ \E k \in 1..MaxLog, status \in Statuses : EditStatus(k, status)
    \/ \E k \in 1..MaxLog, status \in Statuses : AddRow(k, status)
    \/ ClickSave

\* the Attendance Records page, over the logs the Capture Attendance page leaves
SpecRecords == InitRecords /\ [][NextRecords]_vars
(* =============================== claims ================================ *)
Min(S) == CHOOSE m \in S : \A x \in S : m <= x

\* a step of the face loop on one date (the loop stays in the frame)
FaceStep == rec_pc = "faces" /\ rec_pc' = "faces" /\ today' = today

(* C1: in the recognition loop, a face whose least distance to the known
   embeddings is 0.4 or more is labelled "Unknown" and triggers no attendance
   write; a face whose least distance is below 0.4 resolves to the identifier
   of an embedding at that least distance. *)
C1_ThresholdClassification ==
    [][ (FaceStep /\ last_face'.detected) =>
          LET ds == last_face'.distances
              least == Min(Range(ds))
          IN /\ DOMAIN ds = DOMAIN known_encodings /\ DOMAIN ds # {}
             /\ least >= 40 =>
                   /\ ~last_face'.matched
                   /\ last_face'.label = <<"Unknown">>
                   /\ attendance' = attendance
                   /\ marked_calls' = marked_calls
                   /\ email_calls' = email_calls
             /\ least < 40 =>
                   /\ last_face'.matched
                   /\ \E i \in DOMAIN ds :
                         ds[i] = least /\ last_face'.name_with_reg = known_names[i]
                   /\ last_face'.label[2] = 100 - least ]_vars

\* a face matched to the second known embedding, the first lying at the threshold
C1_Witness ==
    /\ rec_pc = "faces"
    /\ last_face.detected
    /\ last_face.matched
    /\ Len(last_face.distances) >= 2
    /\ last_face.distances[1] = 40
    /\ last_face.distances[2] = 35
    /\ last_face.name_with_reg = known_names[2]

(* C2: whatever recognition fires for a student on one date, in one session
   or in several, the attendance log holds at most one Present record of
   that student and date. *)
C2_OnePresentPerStudentAndDate ==
    \A i, j \in DOMAIN attendance :
        ( /\ attendance[i].full_name = attendance[j].full_name
          /\ attendance[i].date = attendance[j].date
          /\ attendance[i].status = Present
          /\ attendance[j].status = Present ) => i = j

\* mark_attendance was called in this session for a student already Present today
C2_Witness ==
    /\ rec_pc = "faces"
    /\ \E k \in DOMAIN marked_calls :
          /\ \A e \in DOMAIN email_calls : email_calls[e][1] # marked_calls[k]
          /\ \E i \in DOMAIN attendance :
                /\ attendance[i].full_name = marked_calls[k]
                /\ attendance[i].date = today
                /\ attendance[i].status = Present
                /\ attendance[i].time # SentinelTime

\* the rows of students enrolled under an identifier
EnrolledAs(name_with_reg) == {i \in DOMAIN students : students[i].folder_name = name_with_reg}

(* C3: for an enrolled student (here: one whose registered name is the name
   the loop reads out of the identifier), the first in-threshold recognition
   of a day adds exactly one record, Present, of today's date and of that
   student; every later recognition of that student that day adds none. *)
C3_FirstRecognitionAddsPresent ==
    [][ ( /\ FaceStep
          /\ last_face'.detected
          /\ last_face'.matched
          /\ \E i \in EnrolledAs(last_face'.name_with_reg) :
                students[i].full_name = lower(display_name(last_face'.name_with_reg)) ) =>
          IF last_face'.name_with_reg \notin seen
          THEN /\ Len(attendance') = Len(attendance) + 1
               /\ SubSeq(attendance', 1, Len(attendance)) = attendance
               /\ attendance'[Len(attendance')].status = Present
               /\ attendance'[Len(attendance')].date = today
               /\ \E i \in EnrolledAs(last_face'.name_with_reg) :
                     students[i].full_name = attendance'[Len(attendance')].full_name
          ELSE attendance' = attendance ]_vars
(* ---- today's report ---- *)
\* a step that requests the report
ReportStep == report'.shown /\ <<report, reported_day, attendance>>' # <<report, reported_day, attendance>>

NamesWithRecord(att, day) == {att[i].full_name : i \in {j \in DOMAIN att : att[j].date = day}}

NamesPresent(att, day) ==
    {att[i].full_name : i \in {j \in DOMAIN att : att[j].date = day /\ att[j].status = Present}}

RegisteredNames == {students[i].full_name : i \in DOMAIN students}

\* the registered students who have a Present record on a day
PresentStudents(att, day) ==
    {i \in DOMAIN students : students[i].full_name \in NamesPresent(att, day)}

DistinctNames == \A i, j \in DOMAIN students : students[i].full_name = students[j].full_name => i = j

\* the records a step appends are Absent, of today, with the sentinel time
AppendsAbsent(n) ==
    /\ Len(attendance') = Len(attendance) + n
    /\ SubSeq(attendance', 1, Len(attendance)) = attendance
    /\ \A i \in (Len(attendance) + 1)..Len(attendance') :
          /\ attendance'[i].status = Absent
          /\ attendance'[i].date = today
          /\ attendance'[i].time = SentinelTime

(* C9 as written (for registries of distinct names): the first report of a
   date creates exactly S - P Absent records, S the size of the registry and
   P the number of registered students Present today; a second report on
   that date creates none. *)
C9_ReportCreatesSMinusP ==
    [][ (ReportStep /\ DistinctNames) =>
          IF reported_day # today
          THEN AppendsAbsent(Len(students) - Cardinality(PresentStudents(attendance, today)))
          ELSE attendance' = attendance ]_vars

(* C9 amended: the report creates exactly one Absent record (today's date,
   sentinel time) for each distinct registered name that has no record of
   any status today, which is S - P when the registered names are distinct
   and every registered student with a record today is Present; a further
   report on the same date, the registry unchanged, creates none. *)
C9_ReportCreatesMissingAbsent ==
    [][ ReportStep =>
          LET missing == RegisteredNames \ NamesWithRecord(attendance, today)
          IN /\ AppendsAbsent(Cardinality(missing))
             /\ {attendance'[i].full_name : i \in (Len(attendance) + 1)..Len(attendance')} = missing
             /\ ( /\ DistinctNames
                  /\ RegisteredNames \cap NamesWithRecord(attendance, today)
                        \subseteq NamesPresent(attendance, today) )
                => Len(attendance') - Len(attendance)
                      = Len(students) - Cardinality(PresentStudents(attendance, today))
             /\ reported_day = today => attendance' = attendance ]_vars

\* a first report of the day, over one student Present and one student toggled to Absent
C9_Witness ==
    /\ report.shown
    /\ report.date = today
    /\ report.total = 2
    /\ report.present = 1
    /\ report.absent = 1
    /\ Len(attendance) = 2
    /\ \A i \in DOMAIN attendance : attendance[i].date = today /\ attendance[i].time # SentinelTime

(* ---- session dedup ---- *)
NewlyRecognized == Range(recognized_names') \ Range(recognized_names)

Occurrences(seq, x) == Cardinality({i \in DOMAIN seq : seq[i] = x})

(* C10 as written: in a session, the first match of a student triggers
   exactly one attendance-log write attempt and exactly one notification
   attempt; further matches of that student trigger neither. *)
C10_OneWriteOneNotification ==
    [][ FaceStep =>
          /\ \A name \in NewlyRecognized :
                /\ Occurrences(marked_calls', lower(name)) = Occurrences(marked_calls, lower(name)) + 1
                /\ Cardinality({e \in DOMAIN email_calls' : email_calls'[e][1] = lower(name)})
                      = Cardinality({e \in DOMAIN email_calls : email_calls[e][1] = lower(name)}) + 1
          /\ NewlyRecognized = {} => marked_calls' = marked_calls /\ email_calls' = email_calls ]_vars

(* C10 amended: in a session, the first match of a student name triggers
   exactly one attendance-log write attempt, and one notification attempt
   exactly when that write attempt inserts a record (the log held no record
   of that name and today's date); further matches of that name trigger
   neither. *)
C10_OneWriteNotificationOnInsert ==
    [][ FaceStep =>
          /\ last_face'.matched => last_face'.label[1] \in Range(recognized_names')
          /\ Cardinality(NewlyRecognized) <= 1
          /\ \A name \in NewlyRecognized :
                /\ Occurrences(recognized_names', name) = 1
                /\ marked_calls' = Append(marked_calls, lower(name))
                /\ IF \E i \in DOMAIN attendance :
                         attendance[i].full_name = lower(name) /\ attendance[i].date = today
                   THEN email_calls' = email_calls /\ attendance' = attendance
                   ELSE /\ Len(email_calls') = Len(email_calls) + 1
                        /\ SubSeq(email_calls', 1, Len(email_calls)) = email_calls
                        /\ email_calls'[Len(email_calls')][1] = lower(name)
                        /\ Len(attendance') = Len(attendance) + 1
          /\ NewlyRecognized = {} =>
                /\ recognized_names' = recognized_names
                /\ marked_calls' = marked_calls
                /\ email_calls' = email_calls
                /\ attendance' = attendance ]_vars

\* two students matched in one session, one of them with a record of today already
C10_Witness ==
    /\ rec_pc = "faces"
    /\ Len(recognized_names) = 2
    /\ Len(marked_calls) = 2
    /\ Len(email_calls) = 1
    /\ last_face.detected
    /\ last_face.matched
(* ---- enrollment ---- *)
\* the registry row bound to a registration number
Bound(tbl, reg_no) == {i \in DOMAIN tbl : tbl[i].reg_no = reg_no}

\* the registration number is bound to another name than the one entered
BoundToOtherName(tbl, name, reg_no) ==
    \E i \in Bound(tbl, reg_no) : tbl[i].full_name # lower(strip(name))

\* the student entered in the form is in the registry under the same name
Registered(tbl, name, reg_no) ==
    \E i \in Bound(tbl, reg_no) : tbl[i].full_name = lower(strip(name))

(* C4: an enrollment attempt whose registration number is bound in the
   registry to a different name writes nothing to the registry, to the
   encoding store or to the image directories, cannot start a capture, and
   (the name being well formed) is answered with the conflict message. *)
C4_ConflictWritesNothing ==
    [][ BoundToOtherName(students, student_name', registration_number') =>
          /\ students' = students
          /\ encodings_dir' = encodings_dir
          /\ dataset_dir' = dataset_dir
          /\ cap_pc = "idle" /\ cap_pc' = "idle"
          /\ rendered' = "none"
          /\ name_valid(student_name') => enroll_msg' = "conflict" ]_vars

\* a conflicting attempt made while the session's re-enrollment flag is set
C4_Witness ==
    /\ BoundToOtherName(students, student_name, registration_number)
    /\ name_valid(student_name)
    /\ allow_capture_flag
    /\ enroll_msg = "conflict"

(* C5: a re-enrollment session of a registered student (same name, same
   registration number) that accepts k >= 1 frames leaves the student's
   stored embeddings in place and in order, followed by the k new ones, and
   sets image_count to the prior image_count plus k. *)
C5_ReEnrollmentAppends ==
    [][ ( /\ cap_pc = "post" /\ cap_pc' = "idle"
          /\ accepted >= 1
          /\ Registered(students, student_name, registration_number) ) =>
          LET old == students[CHOOSE i \in Bound(students, registration_number) : TRUE]
              file == old.folder_name
          IN /\ Len(encodings) = accepted
             /\ file \in DOMAIN encodings_dir
             /\ Range(encodings) \cap Range(encodings_dir[file]) = {}
             /\ DOMAIN encodings_dir' = DOMAIN encodings_dir
             /\ encodings_dir'[file] = encodings_dir[file] \o encodings
             /\ Cardinality(Bound(students', registration_number)) = 1
             /\ \A j \in Bound(students', registration_number) :
                   /\ students'[j].image_count = old.image_count + accepted
                   /\ students'[j].full_name = old.full_name
                   /\ students'[j].folder_name = file ]_vars

\* a confirmed re-enrollment has been saved on top of earlier embeddings
C5_Witness ==
    /\ enroll_msg = "saved"
    /\ registration_number \in confirmed
    /\ \E i \in Bound(students, registration_number) :
          /\ students[i].image_count >= 2
          /\ Len(encodings_dir[students[i].folder_name]) >= 2

(* C6: a capture for a student who is in the registry (same registration
   number, same name) starts only after the operator has confirmed the
   re-enrollment of that student. *)
C6_CaptureNeedsConfirmation ==
    [][ ( /\ cap_pc = "idle" /\ cap_pc' # "idle"
          /\ Registered(students, student_name, registration_number) ) =>
          registration_number \in confirmed ]_vars

(* C7: the registration date of a student is the one of the first insert
   and stays the same after every later enrollment session. *)
C7_RegistrationDateKept ==
    [][ \A i \in DOMAIN students, j \in DOMAIN students' :
          students[i].reg_no = students'[j].reg_no =>
             students'[j].registration_date = students[i].registration_date ]_vars

(* C8: an enrollment session that ends without an accepted embedding has
   written nothing (registry, encoding store and image directories are as
   the session found them) and reports the failure. *)
C8_EmptySessionWritesNothing ==
    [][ (cap_pc = "post" /\ cap_pc' = "idle" /\ encodings = << >>) =>
          /\ students' = before.students
          /\ encodings_dir' = before.encodings_dir
          /\ dataset_dir' = before.dataset_dir
          /\ enroll_msg' = "no_encodings" ]_vars
(* ---- notification ---- *)
\* the outcomes of a notification attempt that the loop survives
EmailOutcomes == {"sent", "failed", "not_configured"}

(* C11: when mark_attendance inserts a Present record, the record is in the
   log after the step whether the notification was delivered, failed or was
   skipped for want of credentials, and in each case the loop goes on with
   the next face or frame; no later step of the page removes the record. *)
C11_WriteSurvivesNotification ==
    [][ /\ Len(email_calls') = Len(email_calls) + 1 =>
              /\ last_face'.email \in EmailOutcomes
              /\ Len(attendance') = Len(attendance) + 1
              /\ SubSeq(attendance', 1, Len(attendance)) = attendance
              /\ attendance'[Len(attendance')].status = Present
              /\ attendance'[Len(attendance')].date = today
              /\ attendance'[Len(attendance')].full_name = email_calls'[Len(email_calls')][1]
              /\ rec_pc' = "faces"
              /\ camera_running'
        /\ \A i \in DOMAIN attendance :
              /\ i \in DOMAIN attendance'
              /\ attendance'[i].id = attendance[i].id
              /\ attendance'[i].full_name = attendance[i].full_name
              /\ attendance'[i].date = attendance[i].date ]_vars

\* a record inserted although the delivery of its notification failed
C11_Witness ==
    /\ rec_pc = "faces"
    /\ last_face.detected
    /\ last_face.email = "failed"
    /\ \E i \in DOMAIN attendance :
          /\ attendance[i].status = Present
          /\ attendance[i].date = today
          /\ <<attendance[i].full_name, attendance[i].reg_no>> = email_calls[Len(email_calls)]
(* ---- edit and save ---- *)
\* a step in which "Save Changes" executed its statements
SaveStep == n_saves' = n_saves + 1

\* the editor holds rows of the view only, each at most once, and no added row
OnlyRemovedOrEdited ==
    /\ \A k \in DOMAIN editable_df : editable_df[k].id # NaN
    /\ ids(editable_df) \subseteq ids(view)
    /\ Cardinality(ids(editable_df)) = Len(editable_df)

RemovedRows == ids(view) \ ids(editable_df)

EditedRows == {k \in DOMAIN editable_df : editable_df[k] \notin Range(view)}

(* C12: a confirmed save of a filtered view in which the operator removed d
   rows, edited e rows, added none and left the others as they were executes
   exactly d DELETE statements, e UPDATE statements and no INSERT. *)
C12_SaveStatementCounts ==
    [][ (SaveStep /\ OnlyRemovedOrEdited) =>
          /\ stmts'.deletes = Cardinality(RemovedRows)
          /\ stmts'.updates = Cardinality(EditedRows)
          /\ stmts'.inserts = 0 ]_vars

(* C13: a save leaves every row of the log whose id is outside the filtered
   view as it was, neither deleted nor updated, whatever was removed, edited
   or added in the view. *)
C13_SaveLeavesOutsideRows ==
    [][ SaveStep =>
          \A i \in DOMAIN attendance :
              attendance[i].id \notin ids(view) =>
                  \E j \in DOMAIN attendance' : attendance'[j] = attendance[i] ]_vars

(* C14: in every state reached by recognition, absent-record synthesis,
   status toggles and edit-and-save, the log holds at most one record of a
   full name and date. *)
C14_OneRecordPerNameAndDate ==
    \A i, j \in DOMAIN attendance :
        ( /\ attendance[i].full_name = attendance[j].full_name
          /\ attendance[i].date = attendance[j].date ) => i = j
(* ---- session end ---- *)
(* C15: a session started with a duration limit ends, the frame reads
   returning: camera_running becomes false and camera_stopped true.  The
   stop signal and the limit are tested at the end of each frame iteration:
   the loop goes on to the next read only below the limit, and a session
   ends only at a failed read or at these tests, with both flags set. *)
C15_TimerSessionTerminates ==
    /\ (camera_running /\ use_timer) ~> (~camera_running /\ camera_stopped /\ rec_pc = "off")
    /\ [][ /\ (rec_pc = "faces" /\ rec_pc' = "read" /\ use_timer) =>
                 /\ elapsed' > elapsed
                 /\ elapsed' < end_time
                 /\ camera_running'
           /\ (camera_running /\ ~camera_running') =>
                 /\ camera_stopped'
                 /\ rec_pc' = "off"
                 /\ rec_pc = "read" \/ rec_pc = "faces" ]_vars

\* a timed session in its second iteration, the limit not yet reached
C15_Witness ==
    /\ camera_running
    /\ use_timer
    /\ rec_pc = "faces"
    /\ elapsed = 1
    /\ end_time = 2
    /\ last_face.detected
(* ---- capture loop counters ---- *)
(* C16: at the end of every iteration of the enrollment capture loop, and
   when the loop has exited for any reason, total_attempts is the sum of
   accepted and the three rejection counters, accepted is the number of
   collected embeddings, and accepted is at most the target count N. *)
C16_CaptureCounters ==
    cap_pc # "idle" =>
        /\ total_attempts = accepted + rejected_blur + rejected_encoding + rejected_no_face
        /\ accepted = Len(encodings)
        /\ accepted <= num_images_to_capture

\* the loop has exited at the target count after one rejected and one accepted frame
C16_Witness ==
    /\ cap_pc = "post"
    /\ total_attempts = 2
    /\ accepted = 1
    /\ accepted = num_images_to_capture
    /\ rejected_blur + rejected_encoding + rejected_no_face = 1
(* ---- registry and encoding store ---- *)
\* the number of embeddings stored under an identifier
Stored(dir, folder) == IF folder \in DOMAIN dir THEN Len(dir[folder]) ELSE 0

(* C17: after any sequence of enrollment sessions, the image_count of every
   student of the registry is the number of embeddings stored under that
   student's name_regno identifier, and no session lowers an image_count. *)
C17_ImageCountIsStoredCount ==
    /\ [](\A i \in DOMAIN students :
             students[i].image_count = Stored(encodings_dir, students[i].folder_name))
    /\ [][ \A i \in DOMAIN students, j \in DOMAIN students' :
              students[i].reg_no = students'[j].reg_no =>
                  students'[j].image_count >= students[i].image_count ]_vars
(* ---- status toggles ---- *)
(* C18: in every state reached by recognition, the synthesis of Absent
   records and status toggles, a record has the sentinel time only if its
   status is Absent: every Present record carries a time of day. *)
C18_SentinelTimeOnlyAbsent ==
    \A i \in DOMAIN attendance :
        attendance[i].time = SentinelTime => attendance[i].status = Absent
(* ---- the counts of today's report ---- *)
(* C19: in today's report the displayed counts satisfy
   present + absent = total registered students, and after the report every
   registered student has a record of today in the attendance log. *)
C19_ReportCountsAddUp ==
    [][ ReportStep =>
          /\ report'.present + report'.absent = report'.total
          /\ report'.total = Len(students)
          /\ \A i \in DOMAIN students :
                students[i].full_name \in NamesWithRecord(attendance', today) ]_vars
====
